---- MODULE Spec2Model ----
(***************************************************************************)
(* A model of the fluent-bit S3 output plugin (out_s3.go, s3.go).          *)
(*                                                                         *)
(* Strings that the code only compares are TLA+ strings.  Strings that the *)
(* code takes apart or puts together are sequences:                        *)
(*   - an endpoint is the sequence of its tokens ("" is << >>);             *)
(*   - a path (the S3 prefix, the object key) is the sequence of its       *)
(*     "/"-separated segments, i.e. strings.Split(path, "/"), so that ""   *)
(*     is <<Name("")>>, "logs/" is <<Name("logs"), Name("")>> and "/logs"  *)
(*     is <<Name(""), Name("logs")>>.                                      *)
(* An instant is a number of whole hours since the epoch together with the *)
(* minutes-and-seconds part; a time zone is a whole-hour offset.           *)
(***************************************************************************)
EXTENDS Integers, Sequences, FiniteSets, TLC

VARIABLES
    \* ---- credential / configuration resolution (s3.go) ----
    cfgIn,        \* raw fields handed to getS3Config, with the credential environment
    cfgOut,       \* result of getS3Config on cfgIn, or NotCalled
    credOut,      \* result of GetCredentials on cfgIn, or NotCalled
    \* ---- object key generation (out_s3.go) ----
    keyIn,        \* [op, t]: the operator and instant handed to GenerateObjectKey
    keyOut,       \* sequence of the keys returned by successive calls
    \* ---- record encoding (out_s3.go) ----
    encIn,        \* the record handed to encodeJSON / createJSON
    encOut,       \* [m, js, err] or NotCalled
    \* ---- plugin life cycle (out_s3.go) ----
    s3operators,  \* the global registry, a sequence of operators
    ctxHandle,    \* per context: the value stored by FLBPluginSetContext
    ctxRaw,       \* per context: the configuration the framework holds for it
    ctxInit,      \* per context: what FLBPluginInit did, or NotCalled
    timeLocal,    \* the process-wide time.Local
    flush,        \* what the last FLBPluginFlushCtx did, or NotCalled
    \* ---- concurrent flushes (out_s3.go) ----
    thr           \* per thread: the position and locals of a flush in progress

vars == <<cfgIn, cfgOut, credOut, keyIn, keyOut, encIn, encOut,
          s3operators, ctxHandle, ctxRaw, ctxInit, timeLocal, flush, thr>>

NotCalled == [tag |-> "notcalled"]

NoConf == [tag |-> "nil"]

IdleKey == [op |-> NoConf, t |-> [h |-> 0, ms |-> 0]]

\* the parts of the state a specification does not use
ConfigIdle == cfgIn = NotCalled /\ cfgOut = NotCalled /\ credOut = NotCalled
KeyIdle == keyIn = IdleKey /\ keyOut = << >>
EncIdle == encIn = NotCalled /\ encOut = NotCalled

----------------------------------------------------------------------------
(* Bounds *)

MaxEndpointLen == 2     \* tokens in an endpoint
MaxPrefixSegs == 2      \* segments in an S3 prefix
MaxDepth == 2           \* nesting depth of a record
MaxBatch == 2           \* records in one flush
MaxCalls == 2           \* successive GenerateObjectKey calls on one input

----------------------------------------------------------------------------
(* Small helpers *)

Name(s) == [tag |-> "name", v |-> s]

EmptyPath == <<Name("")>>

SeqsUpTo(S, n) == UNION { [1..k -> S] : k \in 0..n }

RECURSIVE Concat(_)
Concat(ss) == IF ss = << >> THEN << >> ELSE Head(ss) \o Concat(Tail(ss))

----------------------------------------------------------------------------
(* s3.go: formats, credentials, configuration *)

plainTextFormat == "plainTextFormat"
gzipFormat == "gzipFormat"

AwsDomain == "amazonaws.com"

\* strings.HasSuffix(endpoint, "amazonaws.com") on token sequences
HasSuffix(endpoint, tok) == Len(endpoint) > 0 /\ endpoint[Len(endpoint)] = tok

\* the host's zone and the zones the time database knows
HostZone == "America/New_York"
KnownZones == {"UTC", "Asia/Tokyo"}
Zones == KnownZones \cup {HostZone}
Offset == [z \in Zones |-> CASE z = "UTC" -> 0
                             [] z = "Asia/Tokyo" -> 9
                             [] OTHER -> 0 - 5]

\* time.LoadLocation
LoadLocation(name) == IF name \in KnownZones
                      THEN [err |-> FALSE, loc |-> name]
                      ELSE [err |-> TRUE, loc |-> "nil"]

\* strconv.ParseBool
ParseBool(s) == IF s \in {"1", "t", "T", "TRUE", "true", "True"}
                THEN [err |-> FALSE, val |-> TRUE]
                ELSE IF s \in {"0", "f", "F", "FALSE", "false", "False"}
                THEN [err |-> FALSE, val |-> FALSE]
                ELSE [err |-> TRUE, val |-> FALSE]

\* logrus.ParseLevel
ParseLevel(s) == IF s \in {"panic", "fatal", "error", "warn", "warning",
                           "info", "debug", "trace"}
                 THEN [err |-> FALSE, level |-> s]
                 ELSE [err |-> TRUE, level |-> "panic"]

\* creds.Get() of the three providers.  env describes the world outside the
\* process: whether the file at the credential path has a usable default
\* profile and whether the environment variables hold credentials.
SharedGetOK(credential, env) == env.sharedOK
StaticGetOK(accessKeyID, secretKey) == accessKeyID # "" /\ secretKey # ""
EnvGetOK(env) == env.envOK

GetCredentials(accessKeyID, secretKey, credential, env) ==
    IF credential # ""
    THEN IF SharedGetOK(credential, env)
         THEN [err |-> FALSE, creds |-> "shared"]
         ELSE [err |-> TRUE, creds |-> "nil"]
    ELSE IF ~(accessKeyID = "" /\ secretKey = "")
    THEN IF StaticGetOK(accessKeyID, secretKey)
         THEN [err |-> FALSE, creds |-> "static"]
         ELSE [err |-> TRUE, creds |-> "nil"]
    ELSE IF EnvGetOK(env)
         THEN [err |-> FALSE, creds |-> "env"]
         ELSE [err |-> TRUE, creds |-> "nil"]

ConfErr(msg) == [err |-> msg, conf |-> NoConf]

\* getS3Config: the first failing validation decides the error
getS3Config(raw, env, local) ==
    LET creds == GetCredentials(raw.accessKeyID, raw.secretAccessKey, raw.credential, env)
        auto == ParseBool(raw.autoCreateBucket)
        lvl == ParseLevel(IF raw.logLevel = "" THEN "info" ELSE raw.logLevel)
        loc == LoadLocation(raw.timeZone)
    IN  IF creds.err THEN ConfErr("Failed to create credentials")
        ELSE IF raw.bucket = "" THEN ConfErr("Cannot specify empty string to bucket name")
        ELSE IF raw.s3prefix = EmptyPath THEN ConfErr("Cannot specify empty string to s3prefix")
        ELSE IF raw.region = "" THEN ConfErr("Cannot specify empty string to region")
        ELSE IF raw.endpoint # << >> /\ HasSuffix(raw.endpoint, AwsDomain)
             THEN ConfErr("Endpoint is not supported for AWS S3")
        ELSE IF lvl.err THEN ConfErr("invalid log level")
        ELSE IF raw.timeZone # "" /\ loc.err THEN ConfErr("invalid timeZone")
        ELSE [err |-> "",
              conf |-> [tag |-> "conf",
                        credentials |-> creds.creds,
                        bucket |-> raw.bucket,
                        s3prefix |-> raw.s3prefix,
                        region |-> raw.region,
                        compress |-> IF raw.compress = "gzip" THEN gzipFormat
                                     ELSE plainTextFormat,
                        endpoint |-> raw.endpoint,
                        logLevel |-> lvl.level,
                        location |-> IF raw.timeZone # "" THEN loc.loc ELSE local,
                        autoCreateBucket |-> IF auto.err THEN FALSE ELSE auto.val]]

----------------------------------------------------------------------------
(* out_s3.go: object keys *)

\* t.Local() followed by Format: the fields of instant t in zone local
LocalHours(t, local) == t.h + Offset[local]
FormatDate(t, local) == [tag |-> "date", v |-> LocalHours(t, local) \div 24]
FormatHour(t, local) == [tag |-> "hour", v |-> LocalHours(t, local) % 24]
FormatTimestamp(t, local) ==
    <<LocalHours(t, local) \div 24, LocalHours(t, local) % 24, t.ms>>

FileExt(compressFormat) ==
    CASE compressFormat = plainTextFormat -> ".log"
      [] compressFormat = gzipFormat -> ".log.gz"
      [] OTHER -> ""

\* strings.Join([]string{timestamp, fileext}, "")
FileName(timestamp, fileext) == [tag |-> "file", v |-> <<timestamp, fileext>>]

\* filepath.Clean on the segments of a path
RECURSIVE CleanSegs(_, _, _)
CleanSegs(segs, out, rooted) ==
    IF segs = << >> THEN out
    ELSE LET s == Head(segs)
             rest == Tail(segs)
         IN  IF s = Name("") \/ s = Name(".") THEN CleanSegs(rest, out, rooted)
             ELSE IF s = Name("..")
             THEN IF out # << >> /\ out[Len(out)] # Name("..")
                  THEN CleanSegs(rest, SubSeq(out, 1, Len(out) - 1), rooted)
                  ELSE IF rooted THEN CleanSegs(rest, out, rooted)
                  ELSE CleanSegs(rest, Append(out, s), rooted)
             ELSE CleanSegs(rest, Append(out, s), rooted)

Clean(path) ==
    LET rooted == Len(path) > 1 /\ path[1] = Name("")
        out == CleanSegs(path, << >>, rooted)
    IN  IF rooted THEN (IF out = << >> THEN <<Name(""), Name("")>> ELSE <<Name("")>> \o out)
        ELSE IF out = << >> THEN <<Name(".")>>
        ELSE out

\* filepath.Join: the non-empty elements joined with "/", then cleaned
FilepathJoin(elems) ==
    LET nonEmpty == SelectSeq(elems, LAMBDA e : e # EmptyPath)
    IN  IF nonEmpty = << >> THEN EmptyPath ELSE Clean(Concat(nonEmpty))

\* the variant that formats in whatever zone time.Local already holds
GenerateObjectKeyStaleZone(op, t, local) ==
    [local |-> local,
     key |-> FilepathJoin(<<op.prefix, <<FormatDate(t, local)>>, <<FormatHour(t, local)>>,
                            <<FileName(FormatTimestamp(t, local), FileExt(op.compressFormat))>>>>)]

\* GenerateObjectKey run without interference: it overwrites time.Local and
\* formats the three fields through it.  local is time.Local at the call.
GenerateObjectKey(op, t, local) ==
    LET newLocal == op.location
        timestamp == FormatTimestamp(t, newLocal)
        date == FormatDate(t, newLocal)
        hour == FormatHour(t, newLocal)
        fileName == FileName(timestamp, FileExt(op.compressFormat))
    IN  [local |-> newLocal,
         key |-> FilepathJoin(<<op.prefix, <<date>>, <<hour>>, <<fileName>>>>)]

----------------------------------------------------------------------------
(* Specification SpecKey: GenerateObjectKey on every operator and instant *)

PrefixSegs == {Name("logs"), Name(""), Name("."), Name("..")}
Prefixes == (SeqsUpTo(PrefixSegs, MaxPrefixSegs) \ {<< >>}) \ {EmptyPath}

Instants == [h : {50, 68}, ms : {0, 709}]

Contexts == {"ctx1", "ctx2"}

NewOperator(conf, ctx) ==
    [bucket |-> conf.bucket,
     prefix |-> conf.s3prefix,
     compressFormat |-> conf.compress,
     location |-> conf.location,
     ptr |-> ctx]

KeyOperators ==
    [bucket : {"bkt"}, prefix : Prefixes, compressFormat : {plainTextFormat, gzipFormat},
     location : Zones, ptr : {"ctx1"}]

InitKey ==
    /\ keyIn \in [op : KeyOperators, t : Instants]
    /\ keyOut = << >>
    /\ timeLocal \in Zones
    /\ ConfigIdle /\ EncIdle
    /\ s3operators = << >> /\ ctxHandle = << >> /\ ctxRaw = << >> /\ ctxInit = << >>
    /\ flush = NotCalled
    /\ thr = << >>

\* one call of GenerateObjectKey(keyIn.op, keyIn.t)
CallGenerateObjectKey ==
    /\ Len(keyOut) < MaxCalls
    /\ LET r == GenerateObjectKey(keyIn.op, keyIn.t, timeLocal)
       IN  /\ keyOut' = Append(keyOut, r.key)
           /\ timeLocal' = r.local
    /\ UNCHANGED <<cfgIn, cfgOut, credOut, keyIn, encIn, encOut, s3operators,
                   ctxHandle, ctxRaw, ctxInit, flush, thr>>

\* a call of GenerateObjectKey for another operator, between two calls
CallOtherGenerateObjectKey ==
    /\ Len(keyOut) < MaxCalls
    /\ \E op \in KeyOperators :
          /\ op.location # timeLocal
          /\ timeLocal' = GenerateObjectKey(op, keyIn.t, timeLocal).local
    /\ UNCHANGED <<cfgIn, cfgOut, credOut, keyIn, keyOut, encIn, encOut, s3operators,
                   ctxHandle, ctxRaw, ctxInit, flush, thr>>

NextKey == CallGenerateObjectKey \/ CallOtherGenerateObjectKey

SpecKey == InitKey /\ [][NextKey]_vars

----------------------------------------------------------------------------
(* C6 *)

\* the key as the format string spells it: prefix/date/hour/timestamp+suffix
LiteralKey(op, t) ==
    LET day == (t.h + Offset[op.location]) \div 24
        hh == (t.h + Offset[op.location]) % 24
        suffix == IF op.compressFormat = gzipFormat THEN ".log.gz" ELSE ".log"
    IN  op.prefix \o <<[tag |-> "date", v |-> day],
                       [tag |-> "hour", v |-> hh],
                       [tag |-> "file", v |-> <<<<day, hh, t.ms>>, suffix>>]>>

\* a prefix that is already in the form filepath.Join leaves alone: ordinary
\* names only, after an optional leading "/"
PlainPrefix(prefix) ==
    \A i \in 1..Len(prefix) :
        \/ prefix[i] \notin {Name(""), Name("."), Name("..")}
        \/ (i = 1 /\ prefix[i] = Name("") /\ Len(prefix) > 1)

LastThree(key) == SubSeq(key, Len(key) - 2, Len(key))

----------------------------------------------------------------------------
(* out_s3.go: record encoding *)

\* Go values as the msgpack decoder delivers them, tagged with their type:
\* "bytes" []byte, "string", "int", "float", "array" []interface{},
\* "imap" map[interface{}]interface{}, "smap" map[string]interface{}.
BytesVal(b) == [tag |-> "bytes", v |-> b]
StrVal(b) == [tag |-> "string", v |-> b]
IntVal(n) == [tag |-> "int", v |-> n]
NaN == [tag |-> "float", v |-> "NaN"]
ArrayVal(a) == [tag |-> "array", v |-> a]
IMapVal(m) == [tag |-> "imap", v |-> m]
SMapVal(m) == [tag |-> "smap", v |-> m]

\* the variant that converts the byte values of the top level only
encodeJSONShallow(record) ==
    [k \in DOMAIN record |->
        IF record[k].tag = "bytes" THEN StrVal(record[k].v) ELSE record[k]]

\* encodeJSON: a map[string]interface{} with every key of record
RECURSIVE encodeJSON(_)
encodeJSON(record) ==
    [k \in DOMAIN record |->
        CASE record[k].tag = "bytes" -> StrVal(record[k].v)
          [] record[k].tag = "imap" -> SMapVal(encodeJSON(record[k].v))
          [] OTHER -> record[k]]

\* what jsoniter cannot marshal: a NaN anywhere in the value
RECURSIVE Unsupported(_)
Unsupported(val) ==
    CASE val.tag = "float" -> val.v = "NaN"
      [] val.tag \in {"array", "imap", "smap"} ->
            \E k \in DOMAIN val.v : Unsupported(val.v[k])
      [] OTHER -> FALSE

\* the JSON text of a value, as its syntax tree: a []byte becomes a base64
\* string, a string a JSON string
RECURSIVE JsonOf(_)
JsonOf(val) ==
    CASE val.tag = "string" -> [tag |-> "jstring", v |-> val.v]
      [] val.tag = "bytes" -> [tag |-> "jbase64", v |-> val.v]
      [] val.tag = "int" -> [tag |-> "jnumber", v |-> val.v]
      [] val.tag = "float" -> [tag |-> "jnumber", v |-> val.v]
      [] val.tag = "array" -> [tag |-> "jarray", v |-> [i \in DOMAIN val.v |-> JsonOf(val.v[i])]]
      [] OTHER -> [tag |-> "jobject", v |-> [k \in DOMAIN val.v |-> JsonOf(val.v[k])]]

\* jsoniter.Marshal(m)
Marshal(m) ==
    IF Unsupported(SMapVal(m)) THEN [err |-> TRUE, js |-> [tag |-> "nil", v |-> << >>]]
    ELSE [err |-> FALSE, js |-> JsonOf(SMapVal(m))]

EmptyObject == [tag |-> "jobject", v |-> << >>]

\* createJSON: the JSON text, or "{}" and the error
createJSON(record) ==
    LET m == encodeJSON(record)
        r == Marshal(m)
    IN  IF r.err THEN [js |-> EmptyObject, err |-> TRUE]
        ELSE [js |-> r.js, err |-> FALSE]

----------------------------------------------------------------------------
(* Specification SpecEnc: encodeJSON and createJSON on every record *)

Keys == {"log", "kubernetes"}
Leaves == {BytesVal("A"), IntVal(7), ArrayVal(<<BytesVal("A")>>)}

MapsOver(V) == UNION { [D -> V] : D \in SUBSET Keys }

RECURSIVE RecordsOfDepth(_)
RecordsOfDepth(d) ==
    IF d <= 1 THEN MapsOver(Leaves)
    ELSE MapsOver(Leaves \cup { IMapVal(m) : m \in RecordsOfDepth(d - 1) })

\* the records of the flushes: two that marshal and one that does not
RecLog(b) == [k \in {"log"} |-> BytesVal(b)]
RecNested == [k \in Keys |-> IF k = "log" THEN BytesVal("A") ELSE IMapVal(RecLog("B"))]
RecNaN == [k \in Keys |-> IF k = "log" THEN BytesVal("A") ELSE NaN]
RecDeepNaN == [k \in {"kubernetes"} |-> IMapVal(RecNaN)]

EncRecords == RecordsOfDepth(MaxDepth) \cup {RecNaN, RecDeepNaN}

InitEnc ==
    /\ encIn \in EncRecords
    /\ encOut = NotCalled
    /\ ConfigIdle /\ KeyIdle
    /\ s3operators = << >> /\ ctxHandle = << >> /\ ctxRaw = << >> /\ ctxInit = << >>
    /\ timeLocal = HostZone
    /\ flush = NotCalled
    /\ thr = << >>

CreateJSON ==
    /\ encIn # NotCalled
    /\ encOut = NotCalled
    /\ encOut' = [m |-> encodeJSON(encIn),
                  js |-> createJSON(encIn).js,
                  err |-> createJSON(encIn).err]
    /\ UNCHANGED <<cfgIn, cfgOut, credOut, keyIn, keyOut, encIn, s3operators,
                   ctxHandle, ctxRaw, ctxInit, timeLocal, flush, thr>>

NextEnc == CreateJSON

SpecEnc == InitEnc /\ [][NextEnc]_vars

----------------------------------------------------------------------------
(* C7 *)

\* out is record with, at every depth of nested mappings, the same keys, each
\* byte value turned into the text of the same bytes, each nested mapping
\* encoded in the same way, and every other value unchanged
RECURSIVE Conforms(_, _)
Conforms(record, out) ==
    /\ DOMAIN out = DOMAIN record
    /\ \A k \in DOMAIN record :
          CASE record[k].tag = "bytes" ->
                  out[k].tag = "string" /\ out[k].v = record[k].v
            [] record[k].tag = "imap" ->
                  out[k].tag = "smap" /\ Conforms(record[k].v, out[k].v)
            [] OTHER ->
                  out[k].tag = record[k].tag /\ out[k].v = record[k].v

\* in the JSON object js of record, every byte value held by a mapping, at
\* every depth, is a JSON string and not a base64 string
RECURSIVE BytesAreText(_, _)
BytesAreText(record, js) ==
    /\ js.tag = "jobject"
    /\ DOMAIN js.v = DOMAIN record
    /\ \A k \in DOMAIN record :
          CASE record[k].tag = "bytes" ->
                  js.v[k].tag = "jstring" /\ js.v[k].v = record[k].v
            [] record[k].tag = "imap" -> BytesAreText(record[k].v, js.v[k])
            [] OTHER -> TRUE

\* C7: encode turns every byte value at every nesting depth into text, encodes
\* nested mappings recursively under the same key, leaves other values
\* unchanged and keeps the key set at every level.
C7_EncodeConforms ==
    encOut # NotCalled =>
        /\ Conforms(encIn, encOut.m)
        /\ ~encOut.err => BytesAreText(encIn, encOut.js)

\* a record with a byte value inside a nested mapping, next to a scalar, has
\* been encoded and marshalled
C7_Witness ==
    /\ encOut # NotCalled
    /\ ~encOut.err
    /\ "kubernetes" \in DOMAIN encIn /\ "log" \in DOMAIN encIn
    /\ encIn["log"] = IntVal(7)
    /\ encIn["kubernetes"].tag = "imap"
    /\ "log" \in DOMAIN encIn["kubernetes"].v
    /\ encIn["kubernetes"].v["log"] = BytesVal("A")
    /\ encOut.m["kubernetes"].v["log"] = StrVal("A")

----------------------------------------------------------------------------
(* out_s3.go: construction and the registry *)

FLB_OK == "FLB_OK"
FLB_ERROR == "FLB_ERROR"
FLB_RETRY == "FLB_RETRY"

\* what svc.CreateBucket can answer: success, the two error codes that mean
\* the bucket is there, another service error, an error that is no awserr
CreateBucketResults ==
    {"ok", "BucketAlreadyExists", "BucketAlreadyOwnedByYou", "AccessDenied", "transport"}

\* the input ensureBucket builds: no location constraint in the default region
CreateBucketInput(bucket, region) ==
    [bucket |-> bucket,
     locationConstraint |-> IF region = "us-east-1" THEN "" ELSE region]

\* the variant that takes every error of CreateBucket for a failure
ensureBucketStrict(result) ==
    IF result = "ok" THEN [ok |-> TRUE, err |-> ""] ELSE [ok |-> FALSE, err |-> result]

\* ensureBucket on the answer of svc.CreateBucket
ensureBucket(result) ==
    IF result = "ok" THEN [ok |-> TRUE, err |-> ""]
    ELSE IF result \in {"BucketAlreadyExists", "BucketAlreadyOwnedByYou"}
    THEN [ok |-> TRUE, err |-> ""]
    ELSE [ok |-> FALSE, err |-> result]

\* newS3Output: the operator or the error, and the CreateBucket calls made.
\* cb is the answer CreateBucket gives if it is called.
newS3Output(cfg, ctx, local, cb) ==
    LET c == getS3Config(cfg.raw, cfg.env, local)
    IN  IF c.err # "" THEN [err |-> c.err, op |-> NoConf, createBucket |-> << >>]
        ELSE IF c.conf.autoCreateBucket
        THEN LET call == [input |-> CreateBucketInput(c.conf.bucket, c.conf.region),
                          result |-> cb]
             IN  IF ensureBucket(cb).err # ""
                 THEN [err |-> ensureBucket(cb).err, op |-> NoConf, createBucket |-> <<call>>]
                 ELSE [err |-> "", op |-> NewOperator(c.conf, ctx), createBucket |-> <<call>>]
        ELSE [err |-> "", op |-> NewOperator(c.conf, ctx), createBucket |-> << >>]

\* getS3Operator: operator ids count from 0, TLA+ sequences from 1
getS3Operator(ctx) == s3operators[ctxHandle[ctx] + 1]

NoHandle == [tag |-> "unset"]

\* FLBPluginInit(ctx), with addS3Output: the context is set to the next
\* operator id before the operator is built; a failure unregisters the
\* context, calls plugin.Exit(1) and returns FLB_ERROR.
FLBPluginInit(ctx) ==
    /\ ctxInit[ctx] = NotCalled
    /\ \E cb \in CreateBucketResults :
          LET operatorID == Len(s3operators)
              r == newS3Output(ctxRaw[ctx], ctx, timeLocal, cb)
              order == Cardinality({c \in Contexts : ctxInit[c] # NotCalled})
          IN  /\ ctxHandle' = [ctxHandle EXCEPT ![ctx] = operatorID]
              /\ IF r.err # ""
                 THEN /\ s3operators' = s3operators
                      /\ ctxInit' = [ctxInit EXCEPT ![ctx] =
                            [ret |-> FLB_ERROR, unregistered |-> TRUE, exit |-> <<1>>,
                             createBucket |-> r.createBucket, order |-> order]]
                 ELSE /\ s3operators' = Append(s3operators, r.op)
                      /\ ctxInit' = [ctxInit EXCEPT ![ctx] =
                            [ret |-> FLB_OK, unregistered |-> FALSE, exit |-> << >>,
                             createBucket |-> r.createBucket, order |-> order]]
    /\ UNCHANGED <<cfgIn, cfgOut, credOut, keyIn, keyOut, encIn, encOut, ctxRaw,
                   timeLocal, flush, thr>>

----------------------------------------------------------------------------
(* out_s3.go: flush *)

NL == [tag |-> "nl", v |-> << >>]

\* the variant of the read loop that stops at the first record that fails
RECURSIVE ReadLoopAbort(_, _, _)
ReadLoopAbort(batch, lines, n) ==
    IF batch = << >> THEN [lines |-> lines, n |-> n]
    ELSE LET j == createJSON(Head(batch))
         IN  IF j.err THEN [lines |-> lines, n |-> n + 1]
             ELSE ReadLoopAbort(Tail(batch), lines \o <<j.js, NL>>, n + 1)

\* the loop of FLBPluginFlushCtx over GetRecord: lines is the payload so far,
\* n the number of records taken from the decoder
RECURSIVE ReadLoop(_, _, _)
ReadLoop(batch, lines, n) ==
    IF batch = << >> THEN [lines |-> lines, n |-> n]
    ELSE LET j == createJSON(Head(batch))
         IN  IF j.err THEN ReadLoop(Tail(batch), lines, n + 1)
             ELSE ReadLoop(Tail(batch), lines \o <<j.js, NL>>, n + 1)

\* makeGzip: the gzip member, and the error of gw.Write
makeGzip(body, writeFails) ==
    [bytes |-> [tag |-> "gzip", name |-> "fluent-bit-go-s3", body |-> body],
     err |-> writeFails]

UploadInput(op, objectKey, body) ==
    [bucket |-> op.bucket, key |-> objectKey, body |-> body]

\* the variant that does not upload an empty payload
PutSkipEmpty(op, objectKey, line, writeFails, uploadResult) ==
    IF line = << >> THEN [err |-> "", uploads |-> << >>]
    ELSE IF op.compressFormat = plainTextFormat
    THEN [err |-> IF uploadResult = "ok" THEN "" ELSE uploadResult,
          uploads |-> <<UploadInput(op, objectKey, [tag |-> "plain", body |-> line])>>]
    ELSE IF makeGzip(line, writeFails).err THEN [err |-> "gzip", uploads |-> << >>]
    ELSE [err |-> IF uploadResult = "ok" THEN "" ELSE uploadResult,
          uploads |-> <<UploadInput(op, objectKey, makeGzip(line, writeFails).bytes)>>]

\* fluentPlugin.Put: the error returned and the Upload calls made.  writeFails
\* is whether gw.Write fails, uploadResult the answer of uploader.Upload.
Put(op, objectKey, line, writeFails, uploadResult) ==
    CASE op.compressFormat = plainTextFormat ->
            [err |-> IF uploadResult = "ok" THEN "" ELSE uploadResult,
             uploads |-> <<UploadInput(op, objectKey, [tag |-> "plain", body |-> line])>>]
      [] op.compressFormat = gzipFormat ->
            LET z == makeGzip(line, writeFails)
            IN  IF z.err THEN [err |-> "gzip", uploads |-> << >>]
                ELSE [err |-> IF uploadResult = "ok" THEN "" ELSE uploadResult,
                      uploads |-> <<UploadInput(op, objectKey, z.bytes)>>]
      [] OTHER -> [err |-> "", uploads |-> << >>]

FlushReturnFatal(err) == IF err # "" THEN FLB_ERROR ELSE FLB_OK

\* the return value of FLBPluginFlushCtx for the error of Put
FlushReturn(err) == IF err # "" THEN FLB_RETRY ELSE FLB_OK

UploadResults == {"ok", "RequestError", "AccessDenied"}

FlushRecords == {RecLog("A"), RecNested, RecNaN}
Batches == SeqsUpTo(FlushRecords, MaxBatch)

\* the instants at which flushes run
FlushInstants == {t \in Instants : t.h = 68}

\* FLBPluginFlushCtx(ctx, data) on an initialised context, run on its own
FLBPluginFlushCtx(ctx) ==
    /\ ctxInit[ctx] # NotCalled
    /\ ctxInit[ctx].ret = FLB_OK
    /\ flush = NotCalled
    /\ \E batch \in Batches, t \in FlushInstants, writeFails \in BOOLEAN,
          uploadResult \in UploadResults :
          LET op == getS3Operator(ctx)
              loop == ReadLoop(batch, << >>, 0)
              k == GenerateObjectKey(op, t, timeLocal)
              p == Put(op, k.key, loop.lines, writeFails, uploadResult)
          IN  /\ timeLocal' = k.local
              /\ flush' = [ctx |-> ctx, op |-> op, batch |-> batch, t |-> t,
                           writeFails |-> writeFails, uploadResult |-> uploadResult,
                           taken |-> loop.n, lines |-> loop.lines, objectKey |-> k.key,
                           uploads |-> p.uploads, ret |-> FlushReturn(p.err)]
    /\ UNCHANGED <<cfgIn, cfgOut, credOut, keyIn, keyOut, encIn, encOut, s3operators,
                   ctxHandle, ctxRaw, ctxInit, thr>>

\* the framework has taken the return value of the flush
FlushReturned ==
    /\ flush # NotCalled
    /\ flush' = NotCalled
    /\ UNCHANGED <<cfgIn, cfgOut, credOut, keyIn, keyOut, encIn, encOut, s3operators,
                   ctxHandle, ctxRaw, ctxInit, timeLocal, thr>>

----------------------------------------------------------------------------
(* Specification Spec: contexts are initialised and flushed, one call at a time *)

StaticEnv == [sharedOK |-> FALSE, envOK |-> FALSE]

BaseRaw ==
    [accessKeyID |-> "AKIA", secretAccessKey |-> "s3cr3t", credential |-> "",
     s3prefix |-> <<Name("logs")>>, bucket |-> "bkt", region |-> "us-east-1",
     compress |-> "", endpoint |-> << >>, autoCreateBucket |-> "false",
     logLevel |-> "", timeZone |-> "UTC"]

LifeConfigs ==
    { [raw |-> BaseRaw, env |-> StaticEnv],
      [raw |-> [BaseRaw EXCEPT !.compress = "gzip", !.autoCreateBucket = "true",
                               !.timeZone = "Asia/Tokyo"],
       env |-> StaticEnv],
      [raw |-> [BaseRaw EXCEPT !.timeZone = "", !.region = "ap-northeast-1",
                               !.autoCreateBucket = "true"],
       env |-> StaticEnv],
      [raw |-> [BaseRaw EXCEPT !.bucket = "", !.autoCreateBucket = "true"],
       env |-> StaticEnv],
      [raw |-> [BaseRaw EXCEPT !.credential = "/aws/credentials"], env |-> StaticEnv] }

Init ==
    /\ ConfigIdle /\ KeyIdle /\ EncIdle
    /\ s3operators = << >>
    /\ ctxHandle = [c \in Contexts |-> NoHandle]
    /\ ctxRaw \in [Contexts -> LifeConfigs]
    /\ ctxInit = [c \in Contexts |-> NotCalled]
    /\ timeLocal = HostZone
    /\ flush = NotCalled
    /\ thr = << >>

Next ==
    \/ \E ctx \in Contexts : FLBPluginInit(ctx)
    \/ \E ctx \in Contexts : FLBPluginFlushCtx(ctx)
    \/ FlushReturned

Spec == Init /\ [][Next]_vars

----------------------------------------------------------------------------
(* C1, C2, C3 *)

GzipFailed == flush.op.compressFormat = gzipFormat /\ flush.writeFails

\* C1: a flush returns FLB_OK when the put step returned no error, FLB_RETRY
\* when the put step returned an error (of the upload or of gzip), and never
\* FLB_ERROR.
C1_FlushOutcome ==
    flush # NotCalled =>
        /\ flush.ret # FLB_ERROR
        /\ flush.ret = IF GzipFailed \/ flush.uploadResult # "ok" THEN FLB_RETRY ELSE FLB_OK

\* a flush of a non-empty batch whose upload was refused for good
C1_Witness ==
    /\ flush # NotCalled
    /\ flush.batch # << >>
    /\ flush.uploadResult = "AccessDenied"
    /\ Len(flush.uploads) = 1
    /\ flush.ret = FLB_RETRY

\* C2 as stated: every flush makes exactly one upload call.
C2_ExactlyOneUpload ==
    flush # NotCalled => Len(flush.uploads) = 1

\* C2 amended: a flush makes exactly one upload call, to the operator's bucket
\* under the generated key, for every batch (empty or all records failing
\* included) in both modes, unless gzip compression fails: then it makes none
\* and returns FLB_RETRY.
C2_OneUploadUnlessGzipFails ==
    flush # NotCalled =>
        /\ Len(flush.uploads) = IF GzipFailed THEN 0 ELSE 1
        /\ GzipFailed => flush.ret = FLB_RETRY
        /\ \A i \in 1..Len(flush.uploads) :
              /\ flush.uploads[i].bucket = flush.op.bucket
              /\ flush.uploads[i].key = flush.objectKey

\* a gzip flush in which every record failed to encode uploaded the
\* compressed empty payload
C2_Witness ==
    /\ flush # NotCalled
    /\ flush.batch = <<RecNaN>>
    /\ flush.op.compressFormat = gzipFormat
    /\ Len(flush.uploads) = 1
    /\ flush.uploads[1].body.tag = "gzip"
    /\ flush.uploads[1].body.body = << >>

\* the JSON texts of the records of batch that encode, in order
OkEncodings(batch) ==
    LET ok == SelectSeq(batch, LAMBDA r : ~createJSON(r).err)
    IN  [i \in 1..Len(ok) |-> createJSON(ok[i]).js]

RECURSIVE JoinNL(_)
JoinNL(texts) ==
    IF texts = << >> THEN << >>
    ELSE IF Len(texts) = 1 THEN <<texts[1]>>
    ELSE <<texts[1], NL>> \o JoinNL(Tail(texts))

RECURSIVE TerminateNL(_)
TerminateNL(texts) ==
    IF texts = << >> THEN << >> ELSE <<texts[1], NL>> \o TerminateNL(Tail(texts))

\* C3 as stated: the payload is the JSON texts of the records that encode, in
\* order, joined with newline separators, and every record is taken.
C3_PayloadJoined ==
    flush # NotCalled =>
        /\ flush.taken = Len(flush.batch)
        /\ flush.lines = JoinNL(OkEncodings(flush.batch))

\* C3 amended: the payload is the JSON texts of the records that encode, in
\* order, each followed by a newline, and every record is taken.
C3_PayloadTerminated ==
    flush # NotCalled =>
        /\ flush.taken = Len(flush.batch)
        /\ flush.lines = TerminateNL(OkEncodings(flush.batch))
        /\ \A i \in 1..Len(flush.uploads) :
              flush.uploads[i].body.body = TerminateNL(OkEncodings(flush.batch))

\* a flush whose first record failed to encode carried the second one
C3_Witness ==
    /\ flush # NotCalled
    /\ flush.batch = <<RecNaN, RecNested>>
    /\ flush.taken = 2
    /\ flush.lines = <<createJSON(RecNested).js, NL>>
    /\ Len(flush.uploads) = 1

----------------------------------------------------------------------------
(* C9, C10 *)

Registered(ctx) == \E i \in 1..Len(s3operators) : s3operators[i].ptr = ctx

\* C9: init calls CreateBucket exactly when the configuration is valid and
\* asks for the bucket to be created; success, BucketAlreadyExists and
\* BucketAlreadyOwnedByYou let init register the operator and return FLB_OK;
\* any other CreateBucket error and any configuration error make init
\* unregister the context, call Exit(1) and return FLB_ERROR with no operator
\* registered.
C9_InitOutcome ==
    \A ctx \in Contexts :
        ctxInit[ctx] # NotCalled =>
            LET raw == ctxRaw[ctx].raw
                valid == getS3Config(raw, ctxRaw[ctx].env, HostZone).err = ""
                wanted == raw.autoCreateBucket \in {"1", "t", "T", "TRUE", "true", "True"}
                calls == ctxInit[ctx].createBucket
                good == /\ valid
                        /\ \A i \in 1..Len(calls) :
                              calls[i].result \in
                                  {"ok", "BucketAlreadyExists", "BucketAlreadyOwnedByYou"}
            IN  /\ Len(calls) = IF valid /\ wanted THEN 1 ELSE 0
                /\ good => /\ ctxInit[ctx].ret = FLB_OK
                           /\ ~ctxInit[ctx].unregistered
                           /\ ctxInit[ctx].exit = << >>
                           /\ Registered(ctx)
                /\ ~good => /\ ctxInit[ctx].ret = FLB_ERROR
                            /\ ctxInit[ctx].unregistered
                            /\ ctxInit[ctx].exit = <<1>>
                            /\ ~Registered(ctx)

\* a context whose bucket was already owned was registered
C9_Witness ==
    \E ctx \in Contexts :
        /\ ctxInit[ctx] # NotCalled
        /\ Len(ctxInit[ctx].createBucket) = 1
        /\ ctxInit[ctx].createBucket[1].result = "BucketAlreadyOwnedByYou"
        /\ ctxInit[ctx].ret = FLB_OK
        /\ Registered(ctx)

----------------------------------------------------------------------------
(* Specification SpecConc: flushes of two initialised contexts on two threads.
   GenerateObjectKey is taken statement by statement: the write of time.Local
   and the three t.Local() reads are the steps at which flushes interleave. *)

Threads == {"th1", "th2"}

NoVal == [tag |-> "none", v |-> << >>]

IdleThread ==
    [pc |-> "idle", ctx |-> "none", op |-> NoConf, t |-> [h |-> 0, ms |-> 0],
     lines |-> << >>, timestamp |-> << >>, date |-> NoVal, hour |-> NoVal,
     objectKey |-> << >>, ret |-> "none"]

ConcConfigs ==
    { [raw |-> BaseRaw, env |-> StaticEnv],
      [raw |-> [BaseRaw EXCEPT !.compress = "gzip", !.timeZone = "Asia/Tokyo"],
       env |-> StaticEnv],
      [raw |-> [BaseRaw EXCEPT !.timeZone = ""], env |-> StaticEnv] }

ConcInstant == [h |-> 68, ms |-> 709]
ConcBatch == <<RecLog("A")>>

\* both contexts have been initialised, ctx1 first
InitConc ==
    /\ ConfigIdle /\ KeyIdle /\ EncIdle
    /\ ctxRaw \in [Contexts -> ConcConfigs]
    /\ s3operators = <<newS3Output(ctxRaw["ctx1"], "ctx1", HostZone, "ok").op,
                       newS3Output(ctxRaw["ctx2"], "ctx2", HostZone, "ok").op>>
    /\ ctxHandle = [c \in Contexts |-> IF c = "ctx1" THEN 0 ELSE 1]
    /\ ctxInit = [c \in Contexts |->
                    [ret |-> FLB_OK, unregistered |-> FALSE, exit |-> << >>,
                     createBucket |-> << >>, order |-> IF c = "ctx1" THEN 0 ELSE 1]]
    /\ timeLocal = HostZone
    /\ flush = NotCalled
    /\ thr = [th \in Threads |-> IdleThread]

ConcUnchanged ==
    UNCHANGED <<cfgIn, cfgOut, credOut, keyIn, keyOut, encIn, encOut, s3operators,
                ctxHandle, ctxRaw, ctxInit, flush>>

\* FLBPluginFlushCtx up to the call of GenerateObjectKey(s3operator, time.Now())
FlushEnter(th, ctx) ==
    /\ thr[th].pc = "idle"
    /\ thr' = [thr EXCEPT ![th] =
                  [IdleThread EXCEPT !.pc = "setLocal", !.ctx = ctx,
                                     !.op = getS3Operator(ctx), !.t = ConcInstant,
                                     !.lines = ReadLoop(ConcBatch, << >>, 0).lines]]
    /\ UNCHANGED timeLocal
    /\ ConcUnchanged

\* time.Local = s3operator.location
SetTimeLocal(th) ==
    /\ thr[th].pc = "setLocal"
    /\ timeLocal' = thr[th].op.location
    /\ thr' = [thr EXCEPT ![th].pc = "timestamp"]
    /\ ConcUnchanged

\* timestamp := t.Local().Format("20060102150405")
ReadTimestamp(th) ==
    /\ thr[th].pc = "timestamp"
    /\ thr' = [thr EXCEPT ![th].pc = "date",
                          ![th].timestamp = FormatTimestamp(thr[th].t, timeLocal)]
    /\ UNCHANGED timeLocal
    /\ ConcUnchanged

\* date := t.Local().Format("20060102")
ReadDate(th) ==
    /\ thr[th].pc = "date"
    /\ thr' = [thr EXCEPT ![th].pc = "hour",
                          ![th].date = FormatDate(thr[th].t, timeLocal)]
    /\ UNCHANGED timeLocal
    /\ ConcUnchanged

\* hour := t.Local().Format("15"), then the file name and the joined key
ReadHour(th) ==
    /\ thr[th].pc = "hour"
    /\ LET hour == FormatHour(thr[th].t, timeLocal)
           fileName == FileName(thr[th].timestamp, FileExt(thr[th].op.compressFormat))
       IN  thr' = [thr EXCEPT ![th].pc = "put",
                              ![th].hour = hour,
                              ![th].objectKey =
                                  FilepathJoin(<<thr[th].op.prefix, <<thr[th].date>>,
                                                 <<hour>>, <<fileName>>>>)]
    /\ UNCHANGED timeLocal
    /\ ConcUnchanged

\* plugin.Put and the return of FLBPluginFlushCtx
PutAndReturn(th) ==
    /\ thr[th].pc = "put"
    /\ \E writeFails \in BOOLEAN, uploadResult \in {"ok", "RequestError"} :
          thr' = [thr EXCEPT ![th].pc = "done",
                             ![th].ret = FlushReturn(Put(thr[th].op, thr[th].objectKey,
                                                         thr[th].lines, writeFails,
                                                         uploadResult).err)]
    /\ UNCHANGED timeLocal
    /\ ConcUnchanged

\* the framework has taken the return value; the thread is free again
FlushLeave(th) ==
    /\ thr[th].pc = "done"
    /\ thr' = [thr EXCEPT ![th] = IdleThread]
    /\ UNCHANGED timeLocal
    /\ ConcUnchanged

NextConc ==
    \E th \in Threads :
        \/ \E ctx \in Contexts : FlushEnter(th, ctx)
        \/ SetTimeLocal(th)
        \/ ReadTimestamp(th)
        \/ ReadDate(th)
        \/ ReadHour(th)
        \/ PutAndReturn(th)
        \/ FlushLeave(th)

SpecConc == InitConc /\ [][NextConc]_vars

----------------------------------------------------------------------------
(* C8 *)

\* C8: whatever the interleaving, the object key of every flush has its
\* date, hour and timestamp rendered in the zone of the flush's own operator,
\* as if the flush had run alone.
C8_KeysInOwnZone ==
    \A th \in Threads :
        thr[th].pc \in {"put", "done"} =>
            thr[th].objectKey =
                GenerateObjectKey(thr[th].op, thr[th].t, thr[th].op.location).key

----------------------------------------------------------------------------
(* Specification SpecConfig: getS3Config applied to every raw input *)

EndpointTokens == {"minio", AwsDomain, "/"}
Endpoints == SeqsUpTo(EndpointTokens, MaxEndpointLen)

Envs == [sharedOK : BOOLEAN, envOK : BOOLEAN]

RawConfigs ==
    [accessKeyID : {"", "AKIA"},
     secretAccessKey : {"", "s3cr3t"},
     credential : {"", "/aws/credentials"},
     s3prefix : {EmptyPath, <<Name("logs")>>},
     bucket : {"", "bkt"},
     region : {"", "us-east-1"},
     compress : {"", "gzip"},
     endpoint : Endpoints,
     autoCreateBucket : {"true", "false", "yes"},
     logLevel : {"", "debug", "loud"},
     timeZone : {"", "Asia/Tokyo", "Mars/Phobos"}]

InitConfig ==
    /\ cfgIn \in [raw : RawConfigs, env : Envs]
    /\ cfgOut = NotCalled
    /\ credOut = NotCalled
    /\ KeyIdle /\ EncIdle
    /\ s3operators = << >> /\ ctxHandle = << >> /\ ctxRaw = << >> /\ ctxInit = << >>
    /\ timeLocal = HostZone
    /\ flush = NotCalled
    /\ thr = << >>

GetS3Config ==
    /\ cfgIn # NotCalled
    /\ cfgOut = NotCalled
    /\ credOut' = GetCredentials(cfgIn.raw.accessKeyID, cfgIn.raw.secretAccessKey,
                                 cfgIn.raw.credential, cfgIn.env)
    /\ cfgOut' = getS3Config(cfgIn.raw, cfgIn.env, timeLocal)
    /\ UNCHANGED <<cfgIn, keyIn, keyOut, encIn, encOut, s3operators, ctxHandle,
                   ctxRaw, ctxInit, timeLocal, flush, thr>>

NextConfig == GetS3Config

SpecConfig == InitConfig /\ [][NextConfig]_vars

----------------------------------------------------------------------------
(* C4, C5 *)

\* The resolution order the claim describes: each source that exists is tried
\* in turn, and the first that validates is used.
FirstValidSource(accessKeyID, secretKey, credential, env) ==
    IF credential # "" /\ SharedGetOK(credential, env) THEN "shared"
    ELSE IF accessKeyID # "" /\ secretKey # "" /\ StaticGetOK(accessKeyID, secretKey)
    THEN "static"
    ELSE IF EnvGetOK(env) THEN "env"
    ELSE "nil"

\* C4: credential resolution uses the first source, in the order shared
\* profile, static pair, environment, that exists and validates, and fails
\* only when none of them validates.
C4_FirstValidSourceWins ==
    credOut # NotCalled =>
        LET want == FirstValidSource(cfgIn.raw.accessKeyID, cfgIn.raw.secretAccessKey,
                                     cfgIn.raw.credential, cfgIn.env)
        IN  /\ credOut.creds = want
            /\ credOut.err <=> (want = "nil")

\* an endpoint references the default domain when the domain occurs in it
ReferencesAws(endpoint) == \E i \in 1..Len(endpoint) : endpoint[i] = AwsDomain

\* C5: a configuration that getS3Config returns has non-empty bucket, prefix
\* and region and an endpoint that is empty or does not reference the default
\* domain; an input with an empty bucket, prefix or region, or with an
\* endpoint ending in the default domain, is rejected.
C5_ConfigInvariant ==
    cfgOut # NotCalled =>
        /\ cfgOut.err = "" =>
              /\ cfgOut.conf.bucket # ""
              /\ cfgOut.conf.s3prefix # EmptyPath
              /\ cfgOut.conf.region # ""
              /\ (cfgOut.conf.endpoint = << >> \/ ~ReferencesAws(cfgOut.conf.endpoint))
        /\ (\/ cfgIn.raw.bucket = ""
            \/ cfgIn.raw.s3prefix = EmptyPath
            \/ cfgIn.raw.region = ""
            \/ HasSuffix(cfgIn.raw.endpoint, AwsDomain))
              => (cfgOut.err # "" /\ cfgOut.conf = NoConf)

\* The part of C5 that the suffix test of getS3Config does establish.
C5_SuffixForm ==
    cfgOut # NotCalled =>
        /\ cfgOut.err = "" =>
              /\ cfgOut.conf.bucket # ""
              /\ cfgOut.conf.s3prefix # EmptyPath
              /\ cfgOut.conf.region # ""
              /\ ~HasSuffix(cfgOut.conf.endpoint, AwsDomain)
        /\ (\/ cfgIn.raw.bucket = ""
            \/ cfgIn.raw.s3prefix = EmptyPath
            \/ cfgIn.raw.region = ""
            \/ HasSuffix(cfgIn.raw.endpoint, AwsDomain))
              => (cfgOut.err # "" /\ cfgOut.conf = NoConf)

====
